---- MODULE Spec2Model ----
(***************************************************************************)
(* A model of SysdumpCollector (sysdumpcollector.py): one call of          *)
(* collect() on a freshly constructed collector, with every external       *)
(* effect (kubectl exit codes, the pod-status iterator's result, the       *)
(* bugtool's output text, the wall clock, shutil) chosen by the            *)
(* environment.                                                            *)
(***************************************************************************)
EXTENDS Integers, Sequences, FiniteSets, TLC

(* ------------------------------ bounds -------------------------------- *)

\* The longest pod list one pass of the pod-status iterator returns.
MaxPods == 3

\* The largest reading of the clock (readings are 0..MaxClock, never
\* decreasing during one run).
MaxClock == 1

(* --------------------------- input domains ---------------------------- *)

\* Names of pods the cluster may be running.
ClusterPods == {"cilium-a", "cilium-b", "kube-dns-c"}

\* The prefix collect() passes to collect_gops_stats and collect_logs, and
\* collect_cilium_bugtool_output to the iterator.
CiliumPrefix == "cilium-"

\* The pod names that start with CiliumPrefix.
PodNames ==
    { p \in ClusterPods : /\ Len(p) >= Len(CiliumPrefix)
                          /\ SubSeq(p, 1, Len(CiliumPrefix)) = CiliumPrefix }

\* The interpreter behind "#!/usr/bin/env python": Python 2 keeps the name
\* bound by "except ... as exc" after the handler, Python 3 deletes it.
PyVersions == {2, 3}

\* Constructor arguments (sysdump_dir_name, since, size_limit).
Configs ==
    { [sysdump_dir_name |-> "sysdump-1", since |-> "5s", size_limit |-> "100"],
      [sysdump_dir_name |-> "sysdump-2", since |-> "2m", size_limit |-> "256"] }

\* Exit codes of an external command.
ReturnCodes == {0, 1}

\* Decoded outputs of cilium-bugtool, as splitlines() sees them.
BugtoolOutputs ==
    { << >>,
      << "Dumping logs" >>,
      << "ARCHIVE at /tmp/a.tar" >>,
      << "Dumping logs", "ARCHIVE at /tmp/a.tar", "Done" >>,
      << "ARCHIVE at /tmp/a.tar", "ARCHIVE at /tmp/b.tar" >>,
      << " ARCHIVE at /tmp/a.tar" >>,
      << "ARCHIVE at " >> }

\* The three gops dumps, in the order collect_gops_stats asks for them.
GopsTypes == << "stats", "memstats", "stack" >>

\* The steps of collect(), in source order.
Steps == << "overview", "gops", "cnp", "bugtool", "logs", "archive", "cleanup" >>

VARIABLES
    pyver,                    \* the interpreter's major version
    cfg,                      \* self.sysdump_dir_name, self.since, self.size_limit
    pc,                       \* the position of collect()
    started,                  \* the steps of collect() started so far, in order
    stat,                     \* index in GopsTypes of the collect_gops call
    iterating,                \* a pod-status iterator is open
    pods,                     \* the pod names the open (or last) iterator returns
    idx,                      \* how many of them the loop has taken
    issued,                   \* the commands run for the pods of this pass
    created,                  \* the files created by this pass (or single step)
    attempted,                \* the (pod, type) pairs collect_gops_stats has tried
    now,                      \* the last reading of the clock
    exc,                      \* the local "exc" of collect_cilium_bugtool_output
    output,                   \* the bugtool output of the pod being handled
    output_file_name,         \* the in-pod path extracted from it
    bugtool_output_file_name, \* the local target name for that pod
    stamp,                    \* the timestamp text inside that name
    failedAt,                 \* indices (in pods) whose bundling or log command failed
    cmd,                      \* the external command the last action ran
    emitted,                  \* the log records the last action wrote
    dir,                      \* the working directory: intact, partial, removed
    archives,                 \* the archive files created
    raised                    \* the exception that left collect(), or "none"

vars == << pyver, cfg, pc, started, stat, iterating, pods, idx, issued, created,
           attempted, now, exc, output, output_file_name,
           bugtool_output_file_name, stamp, failedAt, cmd, emitted, dir,
           archives, raised >>

(* ------------------------------ helpers -------------------------------- *)

Unbound == << "unbound", "" >>
NoOutput == << "no output" >>
NoCmd == [tool |-> "none", pod |-> "", stat |-> "", since |-> "", limit |-> "",
          src |-> "", target |-> "", at |-> 0, rc |-> 0]

\* A kubectl command line, kept by its parts; "at" is the index in the open
\* iterator's list of the pod it is run for (0 outside a loop).
Command(tool, pod, st, since, limit, src, target, at) ==
    [tool |-> tool, pod |-> pod, stat |-> st, since |-> since, limit |-> limit,
     src |-> src, target |-> target, at |-> at, rc |-> 0]

Info(msg, subject) ==
    [level |-> "info", msg |-> msg, subject |-> subject, exc |-> Unbound]

Error(msg, subject, e) ==
    [level |-> "error", msg |-> msg, subject |-> subject, exc |-> e]

\* str(CalledProcessError) names the command that failed.
ExcOf(c) == << c.tool, c.pod >>

\* datetime.datetime.utcnow().isoformat()
IsoFormat(t) == "2017-11-01T00:00:0" \o ToString(t)

\* time.strftime("%Y%m%d-%H%M%S")
StrfTime(t) == "20171101-00000" \o ToString(t)

\* The readings the clock can give after reading t.
ClockReadings(t) == { u \in t..(t + 1) : u <= MaxClock }

(* ----------------------------- file names ------------------------------ *)

\* collect_pods_overview: "pods-{}.json"
PodsOverviewFileName(t) == "pods-" \o IsoFormat(t) \o ".json"

\* collect_gops: "{}-{}-{}.txt"
GopsFileName(name, t, type_of_stat) ==
    name \o "-" \o IsoFormat(t) \o "-" \o type_of_stat \o ".txt"

\* collect_cnp: "cnp-{}.yaml"
CnpFileName(t) == "cnp-" \o IsoFormat(t) \o ".yaml"

\* collect_cilium_bugtool_output: "bugtool-{}-{}.tar"
BugtoolFileName(name, t) == "bugtool-" \o name \o "-" \o StrfTime(t) \o ".tar"

\* LogFileName with the timestamp left out of the name.
LogFileName_NoStamp(name, t) == name \o ".log"

\* collect_logs: "{}-{}.log"
LogFileName(name, t) == name \o "-" \o IsoFormat(t) \o ".log"

(* ------------------------------ commands ------------------------------- *)

\* "kubectl get pods -o json --all-namespaces > {}/{}"
PodsOverviewCmd(file) == Command("get-pods", "", "", "", "", "", file, 0)

\* GopsCmd asking gops for "stats" whatever the type.
GopsCmd_AlwaysStats(name, type_of_stat, file, i) ==
    Command("gops", name, "stats", "", "", "", file, i)

\* "kubectl exec -it -n kube-system {} -- /bin/gops {} 1 > {}/{}"
GopsCmd(name, type_of_stat, file, i) ==
    Command("gops", name, type_of_stat, "", "", "", file, i)

\* "kubectl get cnp -o yaml --all-namespaces > {}/{}"
CnpCmd(file) == Command("get-cnp", "", "", "", "", "", file, 0)

\* "kubectl exec -n kube-system -it {} cilium-bugtool"
BugtoolCmd(name, i) == Command("cilium-bugtool", name, "", "", "", "", "", i)

\* "kubectl cp kube-system/{}:{} ./{}/{}"
CpCmd(name, src, file, i) == Command("cp", name, "", "", "", src, file, i)

\* LogsCmd with since and size_limit in each other's place.
LogsCmd_Swapped(name, file, i) ==
    Command("logs", name, "", cfg.size_limit, cfg.since, "", file, i)

\* "kubectl logs --since={} --limit-bytes={} -n kube-system {} > {}/{}"
LogsCmd(name, file, i) ==
    Command("logs", name, "", cfg.since, cfg.size_limit, "", file, i)

\* What "issued" keeps of a command: the tool, the pod and the options.
Issue(c) == [tool |-> c.tool, pod |-> c.pod, stat |-> c.stat,
             since |-> c.since, limit |-> c.limit, at |-> c.at]

(* ------------------------- the try/except idiom ------------------------ *)

\* subprocess.check_output raises CalledProcessError on a non-zero exit.
CheckOutputRaises(rc) == rc # 0

\* Handled with the handler's test turned into "exc.returncode == 0".
Handled_WrongTest(c, errMsg, okMsg, subject) ==
    IF CheckOutputRaises(c.rc)
    THEN IF c.rc = 0 THEN << Error(errMsg, subject, ExcOf(c)) >> ELSE << >>
    ELSE << Info(okMsg, subject) >>

\* try: check_output(cmd)
\* except CalledProcessError as exc:
\*     if exc.returncode != 0: log.error(errMsg.format(exc, subject))
\* else: log.info(okMsg.format(subject))
Handled(c, errMsg, okMsg, subject) ==
    IF CheckOutputRaises(c.rc)
    THEN IF c.rc # 0 THEN << Error(errMsg, subject, ExcOf(c)) >> ELSE << >>
    ELSE << Info(okMsg, subject) >>

\* The local "exc" once an "except ... as exc" handler has caught e.
ExcAfterHandler(e) == IF pyver = 3 THEN Unbound ELSE e

\* A file of the working directory, with the pod and the timestamp text
\* its name was built from.
Artifact(pod, ts, file) == [pod |-> pod, ts |-> ts, file |-> file]

(* ------------------------ the "ARCHIVE at" marker ---------------------- *)

Marker == "ARCHIVE at "

\* re.compile("^ARCHIVE at (.*)$").search(line): a match, for a line that
\* splitlines() has freed of line breaks.
Matches(line) ==
    /\ Len(line) >= Len(Marker)
    /\ SubSeq(line, 1, Len(Marker)) = Marker

\* match.group(1)
Group1(line) == SubSeq(line, Len(Marker) + 1, Len(line))

\* output_file_name = ""; for line in output.splitlines(): if match: ... = group(1)
RECURSIVE ExtractFrom(_, _)
ExtractFrom(lines, found) ==
    IF lines = << >> THEN found
    ELSE ExtractFrom(Tail(lines),
                     IF Matches(Head(lines)) THEN Group1(Head(lines)) ELSE found)

\* ExtractOutputFileName with a loop that stops at the first match.
ExtractOutputFileName_First(lines) ==
    LET hits == { i \in 1..Len(lines) : Matches(lines[i]) }
    IN IF hits = {} THEN ""
       ELSE Group1(lines[CHOOSE i \in hits : \A j \in hits : i <= j])

ExtractOutputFileName(lines) == ExtractFrom(lines, "")

(* ----------------------- the pod-status iterator ----------------------- *)

\* utils.get_pods_status_iterator(prefix): some finite list of names that
\* start with the prefix, fixed when the iteration starts. Each call reads
\* the cluster anew, and a name may come more than once (the descriptor
\* carries no namespace).
get_pods_status_iterator(pod_name_prefix) ==
    LET matching == { p \in ClusterPods :
                        /\ Len(p) >= Len(pod_name_prefix)
                        /\ SubSeq(p, 1, Len(pod_name_prefix)) = pod_name_prefix }
    IN UNION { [1..n -> matching] : n \in 0..MaxPods }

(* ------------------------------- Init ---------------------------------- *)

Init ==
    /\ pyver \in PyVersions
    /\ cfg \in Configs
    /\ pc = "overview"
    /\ started = << >>
    /\ stat = 0
    /\ iterating = FALSE
    /\ pods = << >>
    /\ idx = 0
    /\ issued = << >>
    /\ created = << >>
    /\ attempted = {}
    /\ now = 0
    /\ exc = Unbound
    /\ output = NoOutput
    /\ output_file_name = ""
    /\ bugtool_output_file_name = ""
    /\ stamp = ""
    /\ failedAt = {}
    /\ cmd = NoCmd
    /\ emitted = << >>
    /\ dir = "intact"
    /\ archives = {}
    /\ raised = "none"

bugtoolLocals == << exc, output, output_file_name, bugtool_output_file_name,
                   stamp, failedAt >>
disk == << dir, archives >>
object == << pyver, cfg >>

(* ------------------------ collect_pods_overview ------------------------ *)

CollectPodsOverview ==
    /\ pc = "overview"
    /\ \E t \in ClockReadings(now), rc \in ReturnCodes :
         LET file == PodsOverviewFileName(t)
             c == [PodsOverviewCmd(file) EXCEPT !.rc = rc]
         IN /\ now' = t
            /\ cmd' = c
            \* the shell's "> file" creates the file whatever kubectl does
            /\ created' = << Artifact("", IsoFormat(t), file) >>
            /\ emitted' = << Info("collecting pods overview ...", "") >>
                          \o Handled(c, "Could not collect pods overview",
                                     "collected pods overview", file)
    /\ started' = Append(started, "overview")
    /\ issued' = << >>
    /\ pc' = "gops"
    /\ stat' = 1
    /\ UNCHANGED << object, iterating, pods, idx, attempted, bugtoolLocals,
                    disk, raised >>

(* -------------------- collect_gops_stats / collect_gops ---------------- *)

\* collect_gops opens the iterator; the first of the three calls starts the step.
GopsIterate ==
    /\ pc = "gops"
    /\ ~iterating
    /\ \E l \in get_pods_status_iterator(CiliumPrefix) : pods' = l
    /\ idx' = 0
    /\ iterating' = TRUE
    /\ issued' = << >>
    /\ created' = << >>
    /\ attempted' = IF stat = 1 THEN {} ELSE attempted
    /\ started' = IF stat = 1 THEN Append(started, "gops") ELSE started
    /\ emitted' = IF stat = 1
                  THEN << Info("collecting cilium gops stats ...", "") >>
                  ELSE << >>
    /\ cmd' = NoCmd
    /\ failedAt' = {}
    /\ UNCHANGED << object, pc, stat, now, exc, output, output_file_name,
                    bugtool_output_file_name, stamp, disk, raised >>

\* One turn of collect_gops's loop.
GopsPod ==
    /\ pc = "gops"
    /\ iterating
    /\ idx < Len(pods)
    /\ \E t \in ClockReadings(now), rc \in ReturnCodes :
         LET name == pods[idx + 1]
             type_of_stat == GopsTypes[stat]
             file_name == GopsFileName(name, t, type_of_stat)
             c == [GopsCmd(name, type_of_stat, file_name, idx + 1) EXCEPT !.rc = rc]
         IN /\ now' = t
            /\ cmd' = c
            /\ created' = Append(created, Artifact(name, IsoFormat(t), file_name))
            /\ issued' = Append(issued, Issue(c))
            /\ attempted' = attempted \cup { << c.pod, c.stat >> }
            /\ emitted' = Handled(c, "Could not collect gops " \o type_of_stat,
                                  "collected gops " \o type_of_stat \o " file",
                                  file_name)
    /\ idx' = idx + 1
    /\ UNCHANGED << object, pc, started, stat, iterating, pods, bugtoolLocals,
                    disk, raised >>

\* The iterator is exhausted: collect_gops returns, to the next call of
\* collect_gops_stats or to collect().
GopsDone ==
    /\ pc = "gops"
    /\ iterating
    /\ idx = Len(pods)
    /\ iterating' = FALSE
    /\ stat' = stat + 1
    /\ pc' = IF stat < Len(GopsTypes) THEN pc ELSE "cnp"
    /\ emitted' = << >>
    /\ cmd' = NoCmd
    /\ pods' = << >>
    /\ idx' = 0
    /\ issued' = << >>
    /\ created' = << >>
    /\ UNCHANGED << object, started, attempted, now, bugtoolLocals, disk, raised >>

(* ----------------------------- collect_cnp ----------------------------- *)

CollectCnp ==
    /\ pc = "cnp"
    /\ \E t \in ClockReadings(now), rc \in ReturnCodes :
         LET file == CnpFileName(t)
             c == [CnpCmd(file) EXCEPT !.rc = rc]
         IN /\ now' = t
            /\ cmd' = c
            /\ created' = << Artifact("", IsoFormat(t), file) >>
            /\ emitted' = << Info("collecting cilium network policy ...", "") >>
                          \o Handled(c, "Could not collect cilium network policy",
                                     "collected cilium network policy", file)
    /\ started' = Append(started, "cnp")
    /\ issued' = << >>
    /\ attempted' = {}
    /\ pods' = << >>
    /\ idx' = 0
    /\ stat' = 0
    /\ failedAt' = {}
    /\ pc' = "bugtool"
    /\ UNCHANGED << object, iterating, exc, output, output_file_name,
                    bugtool_output_file_name, stamp, disk, raised >>

(* -------------------- collect_cilium_bugtool_output -------------------- *)

BugtoolIterate ==
    /\ pc = "bugtool"
    /\ ~iterating
    /\ \E l \in get_pods_status_iterator(CiliumPrefix) : pods' = l
    /\ idx' = 0
    /\ iterating' = TRUE
    /\ issued' = << >>
    /\ created' = << >>
    /\ started' = Append(started, "bugtool")
    /\ emitted' = << Info("collecting cilium-bugtool output ...", "") >>
    /\ cmd' = NoCmd
    /\ exc' = Unbound
    /\ output' = NoOutput
    /\ output_file_name' = ""
    /\ bugtool_output_file_name' = ""
    /\ stamp' = ""
    /\ failedAt' = {}
    /\ UNCHANGED << object, pc, stat, attempted, now, disk, raised >>

\* The else branch of the bundling try, up to the copy command: the marker
\* search, and the error report that reads the local "exc".
MarkerSearch(out) ==
    LET found == ExtractOutputFileName(out)
    IN /\ output' = out
       /\ output_file_name' = found
       /\ IF found = ""
          THEN IF exc = Unbound
               THEN \* UnboundLocalError: local variable 'exc' referenced
                    \* before assignment; nothing in collect() catches it.
                    /\ emitted' = << >>
                    /\ pc' = "raised"
                    /\ raised' = "UnboundLocalError"
               ELSE /\ emitted' = << Error("Could not find cilium-bugtool output"
                                           \o " file name", "", exc) >>
                    /\ pc' = "bugtool_cp"
                    /\ raised' = raised
          ELSE /\ emitted' = << >>
               /\ pc' = "bugtool_cp"
               /\ raised' = raised

\* One turn of the loop, up to the copy command.
BugtoolPod ==
    /\ pc = "bugtool"
    /\ iterating
    /\ idx < Len(pods)
    /\ idx' = idx + 1
    /\ \E t \in ClockReadings(now), rc \in ReturnCodes :
         LET name == pods[idx + 1]
             c == [BugtoolCmd(name, idx + 1) EXCEPT !.rc = rc]
         IN /\ now' = t
            /\ bugtool_output_file_name' = BugtoolFileName(name, t)
            /\ stamp' = StrfTime(t)
            /\ cmd' = c
            /\ issued' = Append(issued, Issue(c))
            /\ IF CheckOutputRaises(rc)
               THEN /\ emitted' = IF rc # 0
                                  THEN << Error("Could not run cilium-bugtool on",
                                                name, ExcOf(c)) >>
                                  ELSE << >>
                    /\ exc' = ExcAfterHandler(ExcOf(c))
                    /\ failedAt' = failedAt \cup {idx + 1}
                    /\ output' = NoOutput
                    /\ output_file_name' = ""
                    /\ UNCHANGED << pc, raised >>
               ELSE /\ \E out \in BugtoolOutputs : MarkerSearch(out)
                    /\ UNCHANGED << exc, failedAt >>
    /\ UNCHANGED << object, started, stat, iterating, pods, created, attempted,
                    disk >>

\* The copy-out command of the pod whose bundling succeeded.
BugtoolCopy ==
    /\ pc = "bugtool_cp"
    /\ \E rc \in ReturnCodes :
         LET name == pods[idx]
             c == [CpCmd(name, output_file_name, bugtool_output_file_name, idx)
                     EXCEPT !.rc = rc]
         IN /\ cmd' = c
            /\ issued' = Append(issued, Issue(c))
            \* kubectl cp writes the target only when it succeeds
            /\ created' = IF rc = 0
                          THEN Append(created, Artifact(name, stamp,
                                                        bugtool_output_file_name))
                          ELSE created
            /\ emitted' = Handled(c, "Could not collect cilium-bugtool output",
                                  "collected cilium-bugtool output",
                                  bugtool_output_file_name)
            /\ exc' = IF CheckOutputRaises(rc) THEN ExcAfterHandler(ExcOf(c))
                                               ELSE exc
    /\ pc' = "bugtool"
    /\ UNCHANGED << object, started, stat, iterating, pods, idx, attempted, now,
                    output, output_file_name, bugtool_output_file_name, stamp,
                    failedAt, disk, raised >>

BugtoolDone ==
    /\ pc = "bugtool"
    /\ iterating
    /\ idx = Len(pods)
    /\ iterating' = FALSE
    /\ pc' = "logs"
    /\ emitted' = << >>
    /\ cmd' = NoCmd
    /\ exc' = Unbound
    /\ output' = NoOutput
    /\ output_file_name' = ""
    /\ bugtool_output_file_name' = ""
    /\ stamp' = ""
    /\ failedAt' = {}
    /\ pods' = << >>
    /\ idx' = 0
    /\ issued' = << >>
    /\ created' = << >>
    /\ UNCHANGED << object, started, stat, attempted, now, disk, raised >>

(* ----------------------------- collect_logs ---------------------------- *)

LogsIterate ==
    /\ pc = "logs"
    /\ ~iterating
    /\ \E l \in get_pods_status_iterator(CiliumPrefix) : pods' = l
    /\ idx' = 0
    /\ iterating' = TRUE
    /\ issued' = << >>
    /\ created' = << >>
    /\ failedAt' = {}
    /\ started' = Append(started, "logs")
    /\ emitted' = << Info("collecting cilium logs ...", "") >>
    /\ cmd' = NoCmd
    /\ UNCHANGED << object, pc, stat, attempted, now, exc, output,
                    output_file_name, bugtool_output_file_name, stamp, disk,
                    raised >>

\* One turn of collect_logs's loop.
LogsPod ==
    /\ pc = "logs"
    /\ iterating
    /\ idx < Len(pods)
    /\ \E t \in ClockReadings(now), rc \in ReturnCodes :
         LET name == pods[idx + 1]
             log_file_name == LogFileName(name, t)
             c == [LogsCmd(name, log_file_name, idx + 1) EXCEPT !.rc = rc]
         IN /\ now' = t
            /\ cmd' = c
            /\ created' = Append(created, Artifact(name, IsoFormat(t),
                                                   log_file_name))
            /\ issued' = Append(issued, Issue(c))
            /\ failedAt' = IF rc # 0 THEN failedAt \cup {idx + 1} ELSE failedAt
            /\ emitted' = Handled(c, "Could not collect log file",
                                  "collected log file", log_file_name)
    /\ idx' = idx + 1
    /\ UNCHANGED << object, pc, started, stat, iterating, pods, attempted, exc,
                    output, output_file_name, bugtool_output_file_name, stamp,
                    disk, raised >>

LogsDone ==
    /\ pc = "logs"
    /\ iterating
    /\ idx = Len(pods)
    /\ iterating' = FALSE
    /\ pc' = "archive"
    /\ emitted' = << >>
    /\ cmd' = NoCmd
    /\ failedAt' = {}
    /\ pods' = << >>
    /\ idx' = 0
    /\ issued' = << >>
    /\ created' = << >>
    /\ UNCHANGED << object, started, stat, attempted, now, exc, output,
                    output_file_name, bugtool_output_file_name, stamp, disk,
                    raised >>

(* ------------------------- archive and cleanup ------------------------- *)

\* MakeArchive with a failing make_archive caught like a failing command,
\* so that collect() goes on to rmtree.
MakeArchive_Swallowed ==
    /\ pc = "archive"
    /\ started' = Append(started, "archive")
    /\ emitted' = << >>
    /\ \E ok \in BOOLEAN :
         archives' = IF ok THEN archives \cup {cfg.sysdump_dir_name \o ".zip"}
                          ELSE archives
    /\ pc' = "cleanup"
    /\ UNCHANGED << object, stat, iterating, pods, idx, issued, created,
                    attempted, now, bugtoolLocals, cmd, dir, raised >>

\* shutil.make_archive(dir, 'zip', dir): dir.zip, or an exception that
\* nothing in collect() catches.
MakeArchive ==
    /\ pc = "archive"
    /\ started' = Append(started, "archive")
    /\ emitted' = << >>
    /\ \E ok \in BOOLEAN :
         IF ok
         THEN /\ archives' = archives \cup {cfg.sysdump_dir_name \o ".zip"}
              /\ pc' = "cleanup"
              /\ raised' = raised
         ELSE /\ archives' = archives
              /\ pc' = "raised"
              /\ raised' = "make_archive"
    /\ UNCHANGED << object, stat, iterating, pods, idx, issued, created,
                    attempted, now, bugtoolLocals, cmd, dir >>

\* shutil.rmtree(dir), then the closing log line; a failing rmtree may have
\* deleted part of the tree.
RemoveTree ==
    /\ pc = "cleanup"
    /\ started' = Append(started, "cleanup")
    /\ \E ok \in BOOLEAN :
         IF ok
         THEN /\ dir' = "removed"
              /\ pc' = "done"
              /\ raised' = raised
              /\ emitted' = << Info("deleting directory", cfg.sysdump_dir_name),
                               Info("the sysdump has been saved in the file",
                                    cfg.sysdump_dir_name \o ".zip") >>
         ELSE /\ dir' \in {"intact", "partial"}
              /\ pc' = "raised"
              /\ raised' = "rmtree"
              /\ emitted' = << Info("deleting directory", cfg.sysdump_dir_name) >>
    /\ UNCHANGED << object, stat, iterating, pods, idx, issued, created,
                    attempted, now, bugtoolLocals, cmd, archives >>

(* ------------------------------ collect -------------------------------- *)

Next ==
    \/ CollectPodsOverview
    \/ GopsIterate
    \/ GopsPod
    \/ GopsDone
    \/ CollectCnp
    \/ BugtoolIterate
    \/ BugtoolPod
    \/ BugtoolCopy
    \/ BugtoolDone
    \/ LogsIterate
    \/ LogsPod
    \/ LogsDone
    \/ MakeArchive
    \/ RemoveTree

Spec == Init /\ [][Next]_vars

(* ============================== claims ================================= *)

Range(q) == { q[i] : i \in 1..Len(q) }

IsPrefix(q, r) == Len(q) <= Len(r) /\ q = SubSeq(r, 1, Len(q))

ErrorsIn(log) == { i \in 1..Len(log) : log[i].level = "error" }

\* collect() has returned or an exception has left it.
Over == pc \in {"done", "raised"}

\* The collection step collect() is in, or was in last.
Collecting == IF started = << >> THEN "none"
              ELSE started[IF Len(started) < 5 THEN Len(started) ELSE 5]

ArchiveName == cfg.sysdump_dir_name \o ".zip"

(* ------------------------------- C1 ------------------------------------ *)

\* C1: whatever the collection steps do, collect() runs to completion, and
\* then exactly one archive <dir>.zip exists and the working directory is
\* removed. (A failure of make_archive or rmtree itself is left out: the
\* claim speaks of the collection steps.)
C1_CollectAlwaysArchives ==
    (Over /\ raised \notin {"make_archive", "rmtree"}) =>
        /\ pc = "done"
        /\ archives = {ArchiveName}
        /\ dir = "removed"

(* ------------------------------- C2 ------------------------------------ *)

NoMarkerLine(out) == \A i \in 1..Len(out) : ~Matches(out[i])

\* C2: for a pod whose bundling succeeded with no "ARCHIVE at" line in its
\* output, no copy-out command is attempted (none has run, none is about to)
\* and the bundling step logged an error that names the pod.
C2_NoCopyWithoutMarker ==
    (output # NoOutput /\ NoMarkerLine(output)) =>
        /\ pc # "bugtool_cp"
        /\ cmd.tool # "cp"
        /\ \E i \in ErrorsIn(emitted) : emitted[i].subject = pods[idx]

(* ------------------------------- C3 ------------------------------------ *)

\* Where collect() stands right after command c, when c's failure was
\* caught and the sequence went on past it.
WentOnPast(c) ==
    CASE c.tool = "get-pods"       -> pc = "gops" /\ ~iterating
      [] c.tool = "gops"           -> pc = "gops" /\ iterating /\ idx = c.at
      [] c.tool = "get-cnp"        -> pc = "bugtool" /\ ~iterating
      [] c.tool = "cilium-bugtool" -> pc = "bugtool" /\ iterating /\ idx = c.at
      [] c.tool = "cp"             -> pc = "bugtool" /\ iterating /\ idx = c.at
      [] c.tool = "logs"           -> pc = "logs" /\ iterating /\ idx = c.at
      [] OTHER                     -> FALSE

\* C3: a non-zero exit of any external command is caught where the command
\* is run: the action that ran it writes exactly one error record, which is
\* about that command; nothing is raised; the command is not run again, and
\* collect() stands at the next invocation or step.
C3_FailureCaughtLoggedOnce ==
    cmd.rc # 0 =>
        /\ raised = "none"
        /\ Cardinality(ErrorsIn(emitted)) = 1
        /\ \A i \in ErrorsIn(emitted) : emitted[i].exc = ExcOf(cmd)
        /\ WentOnPast(cmd)

\* A copy-out command has just failed, with pods still to come.
C3_Witness ==
    /\ cmd.tool = "cp"
    /\ cmd.rc # 0
    /\ idx < Len(pods)

(* ------------------------------- C4 ------------------------------------ *)

\* C4: the steps start in the order overview, gops, cnp, bugtool, logs,
\* archive, cleanup, and all seven are started whatever an earlier
\* collection step did. (A failure of make_archive is left out: see C10.)
C4_AllStepsInOrder ==
    /\ IsPrefix(started, Steps)
    /\ (Over /\ raised # "make_archive") => started = Steps

(* ------------------------------- C5 ------------------------------------ *)

LogsIssued ==
    Collecting = "logs" /\ iterating =>
        /\ Len(issued) = idx
        /\ \A i \in 1..idx :
              issued[i] = [tool |-> "logs", pod |-> pods[i], stat |-> "",
                           since |-> cfg.since, limit |-> cfg.size_limit,
                           at |-> i]
        /\ \A i \in failedAt : i <= idx
        /\ (cmd.tool = "logs" /\ cmd.rc # 0) =>
               \E i \in ErrorsIn(emitted) : emitted[i].exc = << "logs", pods[idx] >>

C6_EveryPairAttempted ==
    pc = "cnp" =>
        \A p \in PodNames :
            (\E ty \in Range(GopsTypes) : << p, ty >> \in attempted) =>
                (\A ty \in Range(GopsTypes) : << p, ty >> \in attempted)

GopsIssued ==
    pc = "gops" /\ iterating =>
        /\ Len(issued) = idx
        /\ Len(created) = idx
        /\ \A i \in 1..idx :
              /\ issued[i] = [tool |-> "gops", pod |-> pods[i],
                              stat |-> GopsTypes[stat], since |-> "",
                              limit |-> "", at |-> i]
              /\ created[i].pod = pods[i]
              /\ << pods[i], GopsTypes[stat] >> \in attempted

\* C6, amended: collect_gops_stats makes three passes, one per type in the
\* order stats, memstats, stack, each over its own reading of the pod list;
\* a pass runs one gops command of its type (with one target file) for each
\* pod its iterator returned, in order, and ends only when that list is
\* exhausted, whatever the commands' exit codes.
C6_OnePerReturnedPodPerPass ==
    [][ /\ GopsIssued'
        /\ (pc = "gops" /\ iterating /\ ~iterating') =>
               /\ idx = Len(pods)
               /\ Len(issued) = Len(pods)
               /\ stat' = stat + 1
               /\ pc' = IF stat = Len(GopsTypes) THEN "cnp" ELSE "gops" ]_vars

\* A memstats command has failed for the first of two pods and the command
\* for the second has run.
C6_Witness ==
    /\ pc = "gops"
    /\ stat = 2
    /\ Len(issued) = 2
    /\ cmd.rc # 0
    /\ attempted # {}

(* ------------------------------- C7 ------------------------------------ *)

MarkedLines(out) == { i \in 1..Len(out) : Matches(out[i]) }

\* The path on the last "ARCHIVE at" line of out ("" when there is none).
LastMarked(out) ==
    IF MarkedLines(out) = {} THEN ""
    ELSE LET last == CHOOSE i \in MarkedLines(out) :
                         \A j \in MarkedLines(out) : j <= i
         IN SubSeq(out[last], Len("ARCHIVE at ") + 1, Len(out[last]))

\* C7 as stated: the copy-out command's in-pod path is P for every line
\* "ARCHIVE at P" of the bundling output.
C7_CopiesEveryMarkedPath ==
    cmd.tool = "cp" =>
        \A i \in MarkedLines(output) :
            cmd.src = SubSeq(output[i], Len("ARCHIVE at ") + 1, Len(output[i]))

\* C7, amended: the copy-out command's in-pod path is the path of the last
\* "ARCHIVE at" line of the bundling output, and whenever that path is not
\* empty the copy-out command is the next thing run.
C7_CopiesLastMarkedPath ==
    /\ cmd.tool = "cp" => cmd.src = LastMarked(output)
    /\ (cmd.tool = "cilium-bugtool" /\ cmd.rc = 0 /\ LastMarked(output) # "") =>
           (pc = "bugtool_cp" /\ output_file_name = LastMarked(output))

\* A copy-out has run for an output with two different marked paths.
C7_Witness ==
    /\ cmd.tool = "cp"
    /\ Cardinality(MarkedLines(output)) = 2
    /\ cmd.src = "/tmp/b.tar"

(* ------------------------------- C8 ------------------------------------ *)

Readings == 0..MaxClock

Kinds == {"overview", "cnp", "bugtool", "logs"} \cup Range(GopsTypes)

\* Every name each kind of artifact can get.
NamesOfKind ==
    [ kind \in Kinds |->
        CASE kind = "overview" -> { PodsOverviewFileName(t) : t \in Readings }
          [] kind = "cnp"      -> { CnpFileName(t) : t \in Readings }
          [] kind = "bugtool"  -> { BugtoolFileName(p, t) :
                                      p \in PodNames, t \in Readings }
          [] kind = "logs"     -> { LogFileName(p, t) :
                                      p \in PodNames, t \in Readings }
          [] OTHER             -> { GopsFileName(p, t, kind) :
                                      p \in PodNames, t \in Readings } ]

\* Every name an artifact of another kind can get.
NamesOfOtherKinds ==
    [ kind \in Kinds |-> UNION { NamesOfKind[k] : k \in Kinds \ {kind} } ]

\* The kind of artifact the files in "created" are.
KindNow == IF Collecting = "gops" THEN GopsTypes[stat] ELSE Collecting

C9_BundleFailureSkipsOnlyThatPod ==
    Collecting = "bugtool" =>
        /\ (cmd.tool = "cilium-bugtool" /\ cmd.rc # 0) =>
               /\ \E i \in ErrorsIn(emitted) : emitted[i].subject = cmd.pod
               /\ output = NoOutput
               /\ pc = "bugtool"
        /\ \A i \in failedAt :
               /\ \A k \in 1..Len(issued) :
                     issued[k].at = i => issued[k].tool = "cilium-bugtool"
               /\ (pc \notin {"bugtool", "bugtool_cp"}) =>
                     \A j \in (i + 1)..Len(pods) :
                         \E k \in 1..Len(issued) :
                             /\ issued[k].tool = "cilium-bugtool"
                             /\ issued[k].at = j

(* ------------------------------- C10 ----------------------------------- *)

\* C10: the working directory is touched only once the archive exists, and
\* a failing make_archive leaves it as it was.
C10_RemoveOnlyAfterArchive ==
    /\ dir # "intact" => ArchiveName \in archives
    /\ "cleanup" \in Range(started) => ArchiveName \in archives
    /\ raised = "make_archive" =>
          (dir = "intact" /\ "cleanup" \notin Range(started))

\* collect() has returned: the directory is gone and the archive is there.
C10_Witness ==
    /\ pc = "done"
    /\ dir = "removed"
    /\ archives # {}

====
